---- MODULE Spec2Model ----
(***************************************************************************)
(* The simulation dispatcher of ssbgp-dss-dispatcher: the sqlite store     *)
(* (database.py), the Dispatcher protocol built on it (dispatcher.py) and  *)
(* the batch submission of the simulations tool (simulations/main.py).     *)
(*                                                                         *)
(* The committed contents of the database file are the variables           *)
(* simulator, simulation, queue, running and complete.  Every operation    *)
(* opens its own connection (SimulationDatabase.connect); its writes       *)
(* become visible to other connections only when the connection block      *)
(* exits normally (commit) and are dropped when it exits by an exception   *)
(* (rollback).  sqlite admits one writing transaction at a time.           *)
(*                                                                         *)
(* The table definitions (tables.sql) are not among the sources; the keys  *)
(* are those of the specification's persisted state layout and of the      *)
(* tests: simulation_id is unique in queue, running and complete and       *)
(* references simulation, simulator_id references simulator.               *)
(***************************************************************************)
EXTENDS Integers, Sequences, FiniteSets, TLC

\* ------------------------------------------------------------------ bounds
NumJobs == 2
NumSimulatorIds == 2
NumCallers == 2
MaxBatch == 2
MaxAttempts == 1
MaxPriority == 2

Jobs == 1..NumJobs                    \* simulation ids
SimulatorIds == 1..NumSimulatorIds    \* the values uuid4 can draw
Callers == 1..NumCallers              \* concurrent next_simulation requests
Priorities == 1..MaxPriority          \* higher is more urgent

\* Python's None, for a variable that holds a simulation id or nothing.
None == 0

\* ------------------------------------------------------------------- state
VARIABLES
    simulator,   \* table simulator: set of simulator ids
    simulation,  \* table simulation: set of simulation ids
    queue,       \* table queue: rows [simulation_id, priority] in rowid order
    running,     \* table running: set of <<simulator_id, simulation_id>>
    complete,    \* table complete: set of <<simulator_id, simulation_id>>
    pc,          \* per caller: the statement of next_simulation it is at
    arg,         \* per caller: the simulator_id argument of its call
    sim,         \* per caller: the local variable `simulation`
    tx,          \* per caller: state of the connection's write transaction
    result,      \* per caller: outcome of its last call
    obs,         \* per caller: what its call read from the store (history)
    attempts,    \* collisions of the register call in progress
    last         \* the last register, notify_finished, refused batch or
                 \* Connection call (history)

tables == <<simulator, simulation, queue, running, complete>>
callers == <<pc, arg, sim, tx, result, obs>>
vars == <<simulator, simulation, queue, running, complete,
          pc, arg, sim, tx, result, obs, attempts, last>>

\* The database as one value, for the operators that model Connection.
DB == [simulator |-> simulator, simulation |-> simulation, queue |-> queue,
       running |-> running, complete |-> complete]

Ok(db) == [db |-> db, raised |-> "none"]
Raise(db, error) == [db |-> db, raised |-> error]

QueuedIds(q) == {q[i].simulation_id : i \in 1..Len(q)}
RunningIds(r) == {e[2] : e \in r}
CompleteIds(c) == {e[2] : e \in c}

\* --------------------------------------------------- Connection (database.py)
\* INSERT INTO simulator: id is the primary key.
insert_simulator_unchecked(db, id) == Ok([db EXCEPT !.simulator = @ \cup {id}])
insert_simulator(db, id) ==
    IF id \in db.simulator
    THEN Raise(db, "EntryExistsError")
    ELSE Ok([db EXCEPT !.simulator = @ \cup {id}])

\* INSERT INTO simulation: id is the primary key.
insert_simulation(db, id) ==
    IF id \in db.simulation
    THEN Raise(db, "EntryExistsError")
    ELSE Ok([db EXCEPT !.simulation = @ \cup {id}])

\* INSERT INTO queue: simulation_id is unique and references simulation.
insert_in_queue_unchecked(db, simulation_id, priority) ==
    IF simulation_id \notin db.simulation
    THEN Raise(db, "EntryNotFoundError")
    ELSE Ok([db EXCEPT !.queue = Append(@, [simulation_id |-> simulation_id,
                                            priority |-> priority])])
insert_in_queue(db, simulation_id, priority) ==
    IF simulation_id \in QueuedIds(db.queue)
    THEN Raise(db, "EntryExistsError")
    ELSE IF simulation_id \notin db.simulation
    THEN Raise(db, "EntryNotFoundError")
    ELSE Ok([db EXCEPT !.queue = Append(@, [simulation_id |-> simulation_id,
                                            priority |-> priority])])

\* INSERT INTO running: simulation_id is unique; both ids are foreign keys.
\* sqlite reports the unique violation when both constraints fail.
insert_in_running_no_foreign_keys(db, simulation_id, simulator_id) ==
    IF simulation_id \in RunningIds(db.running)
    THEN Raise(db, "EntryExistsError")
    ELSE Ok([db EXCEPT !.running = @ \cup {<<simulator_id, simulation_id>>}])
insert_in_running(db, simulation_id, simulator_id) ==
    IF simulation_id \in RunningIds(db.running)
    THEN Raise(db, "EntryExistsError")
    ELSE IF simulation_id \notin db.simulation \/ simulator_id \notin db.simulator
    THEN Raise(db, "EntryNotFoundError")
    ELSE Ok([db EXCEPT !.running = @ \cup {<<simulator_id, simulation_id>>}])

\* INSERT INTO complete: simulation_id is unique; both ids are foreign keys.
\* (The finish_datetime column plays no part in any constraint and is left out.)
insert_in_complete_no_foreign_keys(db, simulation_id, simulator_id) ==
    IF simulation_id \in CompleteIds(db.complete)
    THEN Raise(db, "EntryExistsError")
    ELSE Ok([db EXCEPT !.complete = @ \cup {<<simulator_id, simulation_id>>}])
insert_in_complete(db, simulation_id, simulator_id) ==
    IF simulation_id \in CompleteIds(db.complete)
    THEN Raise(db, "EntryExistsError")
    ELSE IF simulation_id \notin db.simulation \/ simulator_id \notin db.simulator
    THEN Raise(db, "EntryNotFoundError")
    ELSE Ok([db EXCEPT !.complete = @ \cup {<<simulator_id, simulation_id>>}])

\* DELETE FROM queue WHERE simulation_id=?
delete_from_queue(db, simulation_id) ==
    [db EXCEPT !.queue = SelectSeq(@, LAMBDA e : e.simulation_id # simulation_id)]

\* DELETE FROM running WHERE simulation_id=?
delete_from_running_skipped(db, simulation_id) == db
delete_from_running(db, simulation_id) ==
    [db EXCEPT !.running = {e \in @ : e[2] # simulation_id}]

\* The rows of queue, running and complete that reference a deleted simulation
\* go with it (the specification's cascade; the foreign keys are declared in
\* tables.sql).
on_delete_cascade(db, simulation_id) ==
    delete_from_running(delete_from_queue(
        [db EXCEPT !.complete = {e \in @ : e[2] # simulation_id}],
        simulation_id), simulation_id)

\* DELETE FROM simulation WHERE id=?
delete_simulation_from_queue(db, simulation_id) ==
    delete_from_queue(db, simulation_id)
delete_simulation(db, simulation_id) ==
    [on_delete_cascade(db, simulation_id) EXCEPT !.simulation = @ \ {simulation_id}]

\* Connection.next_simulation has a docstring and no statements: it returns None
\* whatever the queue holds.
Connection_next_simulation(db) == None

\* db.running_simulation(simulator_id), called at dispatcher.py:73.  database.py
\* does not define it; it is taken from the specification's runningJobFor: the
\* simulation running on the simulator, or None.
running_simulation(db, simulator_id) ==
    IF \E e \in db.running : e[1] = simulator_id
    THEN (CHOOSE e \in db.running : e[1] = simulator_id)[2]
    ELSE None

\* ------------------------------------------------------------ transactions
\* sqlite's write lock: a connection takes it at its first INSERT or DELETE and
\* keeps it until it commits or rolls back.
LockFree == attempts = 0 /\ \A p \in Callers : tx[p] = "none"

Commit(db) ==
    /\ simulator' = db.simulator
    /\ simulation' = db.simulation
    /\ queue' = db.queue
    /\ running' = db.running
    /\ complete' = db.complete

\* SimulationDatabase.connect: `with sqlite3.connect(...)` commits when the
\* block exits normally and rolls back when it exits by an exception.  r is
\* the outcome of the block: what it had written and what it raised.
connect_commits_always(r) == r.db
connect(r) == IF r.raised = "none" THEN r.db ELSE DB

\* `last` after an operation that leaves no record: a batch that was stored,
\* a next_simulation call that committed.
Other == [op |-> "other", simulator_id |-> None, simulation_id |-> None,
          raised |-> "none", ran |-> FALSE, rows |-> <<>>]

\* ------------------------------------------------------------------- Init
\* registered: whether simulator_id was registered at the call; had: what
\* running_simulation gave; wasComplete: whether the simulation read had a
\* complete row then; best: the queue rows of highest priority when
\* db.next_simulation() ran.
NoObs == [registered |-> FALSE, had |-> None, wasComplete |-> FALSE, best |-> {}]
NoResult == [kind |-> "no call", simulation |-> None]

CallersInit ==
    /\ pc = [p \in Callers |-> "idle"]
    /\ arg = [p \in Callers |-> None]
    /\ sim = [p \in Callers |-> None]
    /\ tx = [p \in Callers |-> "none"]
    /\ result = [p \in Callers |-> NoResult]
    /\ obs = [p \in Callers |-> NoObs]
    /\ attempts = 0
    /\ last = Other

\* A freshly created database file: the tables exist and are empty.
Init ==
    /\ simulator = {}
    /\ simulation = {}
    /\ queue = <<>>
    /\ running = {}
    /\ complete = {}
    /\ CallersInit

\* ------------------------------------------- add_simulations (simulations/main.py)
\* The loop of add_simulations over simulations[i..], stopping at the first
\* exception.
RECURSIVE AddAll(_, _, _, _)
AddAll(db, simulations, i, priority) ==
    IF i > Len(simulations) THEN Ok(db)
    ELSE LET a == insert_simulation(db, simulations[i]) IN
         IF a.raised # "none" THEN a
         ELSE LET b == insert_in_queue(a.db, simulations[i], priority) IN
              IF b.raised # "none" THEN b
              ELSE AddAll(b.db, simulations, i + 1, priority)

Batches == UNION {[1..n -> Jobs] : n \in 1..MaxBatch}

add_simulations(simulations, priority) ==
    /\ LockFree
    /\ LET r == AddAll(DB, simulations, 1, priority) IN
       /\ Commit(connect(r))
       /\ last' = IF r.raised = "none" THEN Other
                  ELSE [Other EXCEPT !.op = "add_simulations",
                                     !.raised = r.raised]
    /\ UNCHANGED <<callers, attempts>>

\* ------------------------------------------------- Dispatcher (dispatcher.py)
\* register: one turn of the loop whose generated id is already taken.
register_collision(id) ==
    /\ attempts < MaxAttempts
    /\ attempts > 0 \/ LockFree
    /\ insert_simulator(DB, id).raised = "EntryExistsError"
    /\ attempts' = attempts + 1
    /\ UNCHANGED <<tables, callers, last>>

\* register: the turn of the loop whose insert succeeds; the call returns id.
register(id) ==
    /\ attempts > 0 \/ LockFree
    /\ LET r == insert_simulator(DB, id) IN
       /\ r.raised = "none"
       /\ Commit(connect(r))
    /\ attempts' = 0
    /\ last' = [Other EXCEPT !.op = "register", !.simulator_id = id]
    /\ UNCHANGED callers

\* `if not simulation:` the simulator has no simulation assigned yet.
NoAssignmentAlways(s) == TRUE
NoAssignment(s) == s = None

\* `if simulation:` the queue gave a simulation.
HasSimulation(s) == s # None

\* The ids of the queue rows of highest priority (history, for the claims).
Best(q) ==
    {q[i].simulation_id : i \in {k \in 1..Len(q) :
        \A m \in 1..Len(q) : q[m].priority <= q[k].priority}}

\* What caller p's connection has written and not yet committed.
Pending(p) ==
    IF tx[p] = "inserted" THEN insert_in_running(DB, sim[p], arg[p]).db
    ELSE IF tx[p] = "deleted"
    THEN delete_from_queue(insert_in_running(DB, sim[p], arg[p]).db, sim[p])
    ELSE DB

\* next_simulation(simulator_id) is called: the connection is opened.
next_simulation_call(p, simulator_id) ==
    /\ pc[p] = "idle"
    /\ pc' = [pc EXCEPT ![p] = "running_simulation"]
    /\ arg' = [arg EXCEPT ![p] = simulator_id]
    /\ sim' = [sim EXCEPT ![p] = None]
    /\ result' = [result EXCEPT ![p] = [kind |-> "pending", simulation |-> None]]
    /\ obs' = [obs EXCEPT ![p] = [NoObs EXCEPT
                    !.registered = simulator_id \in simulator]]
    /\ UNCHANGED <<tables, tx, attempts, last>>

\* except Exception: db.rollback(); raise OperationError.
Fail(p) ==
    /\ pc' = [pc EXCEPT ![p] = "idle"]
    /\ tx' = [tx EXCEPT ![p] = "none"]
    /\ result' = [result EXCEPT ![p] = [kind |-> "OperationError",
                                        simulation |-> None]]
    /\ UNCHANGED <<tables, arg, sim, obs, attempts, last>>

\* simulation = db.running_simulation(simulator_id); if not simulation: ...
StepRunningSimulationOfAny(p) ==
    LET s == IF running = {} THEN None
             ELSE running_simulation(Pending(p),
                                     (CHOOSE e \in running : TRUE)[1]) IN
    /\ sim' = [sim EXCEPT ![p] = s]
    /\ obs' = [obs EXCEPT ![p].had = s,
                          ![p].wasComplete = s \in CompleteIds(complete)]
    /\ pc' = [pc EXCEPT ![p] = IF NoAssignment(s) THEN "next_simulation"
                               ELSE "respond"]
    /\ UNCHANGED <<tables, arg, tx, result, attempts, last>>
StepRunningSimulation(p) ==
    LET s == running_simulation(Pending(p), arg[p]) IN
    /\ sim' = [sim EXCEPT ![p] = s]
    /\ obs' = [obs EXCEPT ![p].had = s,
                          ![p].wasComplete = s \in CompleteIds(complete)]
    /\ pc' = [pc EXCEPT ![p] = IF NoAssignment(s) THEN "next_simulation"
                               ELSE "respond"]
    /\ UNCHANGED <<tables, arg, tx, result, attempts, last>>

\* simulation = db.next_simulation(); if simulation: ...
StepNextSimulationPops(p) ==
    LET s == Connection_next_simulation(Pending(p)) IN
    /\ sim' = [sim EXCEPT ![p] = s]
    /\ obs' = [obs EXCEPT ![p].best = Best(queue),
                          ![p].wasComplete = s \in CompleteIds(complete)]
    /\ pc' = [pc EXCEPT ![p] = IF HasSimulation(s) THEN "insert_in_running"
                               ELSE "respond"]
    /\ queue' = IF queue = <<>> THEN queue ELSE Tail(queue)
    /\ UNCHANGED <<simulator, simulation, running, complete,
                   arg, tx, result, attempts, last>>
StepNextSimulation(p) ==
    LET s == Connection_next_simulation(Pending(p)) IN
    /\ sim' = [sim EXCEPT ![p] = s]
    /\ obs' = [obs EXCEPT ![p].best = Best(queue),
                          ![p].wasComplete = s \in CompleteIds(complete)]
    /\ pc' = [pc EXCEPT ![p] = IF HasSimulation(s) THEN "insert_in_running"
                               ELSE "respond"]
    /\ UNCHANGED <<tables, arg, tx, result, attempts, last>>

\* db.insert_in_running(simulation.id, simulator_id), the connection's first
\* write: it waits for the write lock, and sqlite3 gives up after its busy
\* timeout with OperationalError, which `except Exception` catches.
StepInsertInRunning(p) ==
    IF ~LockFree THEN Fail(p) ELSE
       LET r == insert_in_running(DB, sim[p], arg[p]) IN
       IF r.raised = "none"
       THEN /\ tx' = [tx EXCEPT ![p] = "inserted"]
            /\ pc' = [pc EXCEPT ![p] = "delete_from_queue"]
            /\ UNCHANGED <<tables, arg, sim, result, obs, attempts, last>>
       ELSE IF r.raised = "EntryNotFoundError"
       THEN \* except EntryNotFoundError: simulation = None
            /\ tx' = [tx EXCEPT ![p] = "begun"]
            /\ sim' = [sim EXCEPT ![p] = None]
            /\ pc' = [pc EXCEPT ![p] = "respond"]
            /\ UNCHANGED <<tables, arg, result, obs, attempts, last>>
       ELSE Fail(p)

\* db.delete_from_queue(simulation.id)
StepDeleteFromQueue(p) ==
    /\ tx' = [tx EXCEPT ![p] = "deleted"]
    /\ pc' = [pc EXCEPT ![p] = "respond"]
    /\ UNCHANGED <<tables, arg, sim, result, obs, attempts, last>>

\* logger.info(f"responded with {simulation.id}"); return simulation.
StepRespondPops(p) ==
    IF sim[p] = None
    THEN Fail(p)
    ELSE /\ Commit([Pending(p) EXCEPT !.queue = IF @ = <<>> THEN @ ELSE Tail(@)])
         /\ pc' = [pc EXCEPT ![p] = "idle"]
         /\ tx' = [tx EXCEPT ![p] = "none"]
         /\ result' = [result EXCEPT ![p] = [kind |-> "returned",
                                             simulation |-> sim[p]]]
         /\ last' = IF tx[p] = "none" THEN last ELSE Other
         /\ UNCHANGED <<arg, sim, obs, attempts>>
\* With simulation None the attribute access raises AttributeError, which the
\* handler's `except Exception` turns into OperationError after a rollback.
StepRespond(p) ==
    IF sim[p] = None
    THEN Fail(p)
    ELSE /\ Commit(Pending(p))
         /\ pc' = [pc EXCEPT ![p] = "idle"]
         /\ tx' = [tx EXCEPT ![p] = "none"]
         /\ result' = [result EXCEPT ![p] = [kind |-> "returned",
                                             simulation |-> sim[p]]]
         /\ last' = IF tx[p] = "none" THEN last ELSE Other
         /\ UNCHANGED <<arg, sim, obs, attempts>>

\* Caller p runs the next statement of Dispatcher.next_simulation.
next_simulation(p) ==
    /\ pc[p] # "idle"
    /\ CASE pc[p] = "running_simulation" -> StepRunningSimulation(p)
         [] pc[p] = "next_simulation" -> StepNextSimulation(p)
         [] pc[p] = "insert_in_running" -> StepInsertInRunning(p)
         [] pc[p] = "delete_from_queue" -> StepDeleteFromQueue(p)
         [] pc[p] = "respond" -> StepRespond(p)

\* notify_finished: delete_from_running then insert_in_complete on one
\* connection; an exception leaves the block and rolls back.  The writes of a
\* transaction are invisible to other connections until its commit, so the
\* call is one step.  `last` keeps, of a call that succeeded, its arguments
\* and whether the simulation was running on that simulator, and of a call
\* that failed, its error and whether the simulation had a running row.
notify_finished(simulator_id, simulation_id) ==
    /\ LET d == delete_from_running(DB, simulation_id)
           r == IF LockFree
                THEN insert_in_complete(d, simulation_id, simulator_id)
                ELSE Raise(DB, "OperationalError")  \* database is locked
       IN
       /\ Commit(connect(r))
       /\ last' = IF r.raised = "none"
                  THEN [op |-> "notify_finished", simulator_id |-> simulator_id,
                        simulation_id |-> simulation_id, raised |-> "none",
                        ran |-> <<simulator_id, simulation_id>> \in running,
                        rows |-> <<>>]
                  ELSE [Other EXCEPT !.op = "notify_finished",
                                     !.raised = r.raised,
                                     !.ran = simulation_id \in RunningIds(running)]
    /\ UNCHANGED <<callers, attempts>>

Next ==
    \/ \E b \in Batches, pr \in Priorities : add_simulations(b, pr)
    \/ \E id \in SimulatorIds : register_collision(id)
    \/ \E id \in SimulatorIds : register(id)
    \/ \E p \in Callers, id \in SimulatorIds : next_simulation_call(p, id)
    \/ \E p \in Callers : next_simulation(p)
    \/ \E id \in SimulatorIds, j \in Jobs : notify_finished(id, j)

Spec == Init /\ [][Next]_vars

\* ------------------------------------------------- a store found on start
\* The database file outlives the dispatcher process (main.py opens
\* <data_dir>/simulations.db).  InitStore is a dispatcher starting on a file
\* that already holds simulators and simulations, each simulation in one of
\* queue, running and complete, no simulator running two simulations.  Rows of
\* running are written by Connection.insert_in_running alone; with
\* Connection.next_simulation returning None the Dispatcher never calls it, so
\* such rows come from a direct use of the Connection, as in test_database.py.
Places(S) ==
    {<<"absent", None>>} \cup ({"queue"} \X Priorities)
        \cup ({"running", "complete"} \X S)

Orders(S) ==
    {q \in [1..Cardinality(S) -> S] : \A a, b \in 1..Cardinality(S) :
        a # b => q[a] # q[b]}

InitStore ==
    /\ \E S \in SUBSET SimulatorIds : \E place \in [Jobs -> Places(S)] :
        /\ \A a, b \in Jobs : (a # b /\ place[a][1] = "running"
                                 /\ place[b][1] = "running")
                                => place[a][2] # place[b][2]
        /\ simulator = S
        /\ simulation = {j \in Jobs : place[j][1] # "absent"}
        /\ \E o \in Orders({j \in Jobs : place[j][1] = "queue"}) :
              queue = [i \in 1..Len(o) |-> [simulation_id |-> o[i],
                                            priority |-> place[o[i]][2]]]
        /\ running = {<<place[j][2], j>> : j \in {k \in Jobs : place[k][1] = "running"}}
        /\ complete = {<<place[j][2], j>> : j \in {k \in Jobs : place[k][1] = "complete"}}
    /\ CallersInit

SpecStore == InitStore /\ [][Next]_vars

\* --------------------------------------------------- the process is killed
\* The dispatcher process dies while calls are in progress: its requests and
\* their open connections are gone, and sqlite drops what a connection had
\* not committed when the file is opened again.  The Dispatcher keeps nothing
\* but the handle of the database (Dispatcher.__init__), so the process that
\* starts next has the committed tables and no call in progress.
crash ==
    /\ attempts > 0 \/ \E p \in Callers : pc[p] # "idle"
    /\ pc' = [p \in Callers |-> "idle"]
    /\ arg' = [p \in Callers |-> None]
    /\ sim' = [p \in Callers |-> None]
    /\ tx' = [p \in Callers |-> "none"]
    /\ result' = [p \in Callers |-> NoResult]
    /\ obs' = [p \in Callers |-> NoObs]
    /\ attempts' = 0
    /\ last' = [Other EXCEPT !.op = "crash"]
    /\ UNCHANGED tables

NextCrash ==
    \/ Next
    \/ crash

SpecCrash == InitStore /\ [][NextCrash]_vars

\* ------------------------------------------------------ simulators at work
\* Registered simulators that keep asking for a simulation and report the one
\* they were given as finished (the simulator side of the protocol: poll,
\* execute, report back).
report_finished(p) ==
    /\ pc[p] = "idle"
    /\ result[p].kind = "returned"
    /\ notify_finished(arg[p], result[p].simulation)

\* A simulator asks with the id register gave it.
ask_simulation(p, id) ==
    /\ id \in simulator
    /\ next_simulation_call(p, id)

NextWorker ==
    \/ \E p \in Callers, id \in SimulatorIds : ask_simulation(p, id)
    \/ \E p \in Callers : next_simulation(p)
    \/ \E p \in Callers : report_finished(p)

SpecWorker ==
    /\ InitStore
    /\ [][NextWorker]_vars
    /\ \A p \in Callers :
          /\ WF_vars(\E id \in SimulatorIds : ask_simulation(p, id))
          /\ WF_vars(next_simulation(p))
          /\ WF_vars(report_finished(p))

\* ------------------------------------------------ the Connection by itself
\* A client of the data layer, as test_database.py is, calls the methods of a
\* Connection in any order and with any arguments.  A step is one call: the
\* statement either takes effect or raises and changes nothing.  `last` keeps
\* the call, its arguments, what it raised and whether it changed a table.
Outcome(op, simulator_id, simulation_id, r) ==
    [op |-> op, simulator_id |-> simulator_id, simulation_id |-> simulation_id,
     raised |-> r.raised, ran |-> r.db # DB, rows |-> <<>>]

Connection_insert_simulator(id) ==
    LET r == insert_simulator(DB, id) IN
    /\ Commit(r.db)
    /\ last' = Outcome("insert_simulator", id, None, r)
    /\ UNCHANGED <<callers, attempts>>

Connection_insert_simulation(id) ==
    LET r == insert_simulation(DB, id) IN
    /\ Commit(r.db)
    /\ last' = Outcome("insert_simulation", None, id, r)
    /\ UNCHANGED <<callers, attempts>>

Connection_insert_in_queue(simulation_id, priority) ==
    LET r == insert_in_queue(DB, simulation_id, priority) IN
    /\ Commit(r.db)
    /\ last' = Outcome("insert_in_queue", None, simulation_id, r)
    /\ UNCHANGED <<callers, attempts>>

Connection_insert_in_running(simulation_id, simulator_id) ==
    LET r == insert_in_running(DB, simulation_id, simulator_id) IN
    /\ Commit(r.db)
    /\ last' = Outcome("insert_in_running", simulator_id, simulation_id, r)
    /\ UNCHANGED <<callers, attempts>>

Connection_insert_in_complete(simulation_id, simulator_id) ==
    LET r == insert_in_complete(DB, simulation_id, simulator_id) IN
    /\ Commit(r.db)
    /\ last' = Outcome("insert_in_complete", simulator_id, simulation_id, r)
    /\ UNCHANGED <<callers, attempts>>

Connection_delete_simulation(simulation_id) ==
    LET r == Ok(delete_simulation(DB, simulation_id)) IN
    /\ Commit(r.db)
    /\ last' = Outcome("delete_simulation", None, simulation_id, r)
    /\ UNCHANGED <<callers, attempts>>

Connection_delete_from_queue(simulation_id) ==
    LET r == Ok(delete_from_queue(DB, simulation_id)) IN
    /\ Commit(r.db)
    /\ last' = Outcome("delete_from_queue", None, simulation_id, r)
    /\ UNCHANGED <<callers, attempts>>

\* SELECT * FROM simulation JOIN queue ON id == simulation_id, without ORDER
\* BY: every queue row once, in an order the statement does not fix (sqlite
\* scans the simulation table, so it is the order in which the simulations
\* were inserted, whatever their priorities).  The set of sequences the
\* generator can yield.
queued_simulations(db) ==
    {[i \in 1..Len(db.queue) |-> db.queue[o[i]]] : o \in Orders(1..Len(db.queue))}

Connection_queued_simulations ==
    \E yielded \in queued_simulations(DB) :
        /\ last' = [Other EXCEPT !.op = "queued_simulations", !.rows = yielded]
        /\ UNCHANGED <<tables, callers, attempts>>

Connection_delete_from_running(simulation_id) ==
    LET r == Ok(delete_from_running(DB, simulation_id)) IN
    /\ Commit(r.db)
    /\ last' = Outcome("delete_from_running", None, simulation_id, r)
    /\ UNCHANGED <<callers, attempts>>

NextConnection ==
    \/ \E id \in SimulatorIds : Connection_insert_simulator(id)
    \/ \E id \in Jobs : Connection_insert_simulation(id)
    \/ \E j \in Jobs, pr \in Priorities : Connection_insert_in_queue(j, pr)
    \/ \E j \in Jobs, id \in SimulatorIds : Connection_insert_in_running(j, id)
    \/ \E j \in Jobs, id \in SimulatorIds : Connection_insert_in_complete(j, id)
    \/ \E j \in Jobs : Connection_delete_simulation(j)
    \/ \E j \in Jobs : Connection_delete_from_queue(j)
    \/ \E j \in Jobs : Connection_delete_from_running(j)
    \/ Connection_queued_simulations

SpecConnection == Init /\ [][NextConnection]_vars

\* ------------------------------------------------------------------ claims
InQueue(j) == j \in QueuedIds(queue)
InRunning(j) == j \in RunningIds(running)
InComplete(j) == j \in CompleteIds(complete)

\* Caller p's call of next_simulation has ended.
Completed(p) == pc[p] = "idle" /\ result[p].kind \in {"returned", "OperationError"}
Returned(p, s) == Completed(p) /\ result[p] = [kind |-> "returned", simulation |-> s]

\* C1: in every committed state each job id is in at most one of queue,
\* running and complete.
C1_OnePlacement ==
    \A j \in Jobs :
        ~(InQueue(j) /\ InRunning(j)) /\ ~(InQueue(j) /\ InComplete(j))
            /\ ~(InRunning(j) /\ InComplete(j))

\* C3: when every caller, each with its own registered simulator id and no
\* running simulation, found the one queued job j at the head of the queue,
\* exactly one of them is returned j and every other is returned None.
C3_OneCallerReceives ==
    \A j \in Jobs :
        (/\ simulation = {j}
         /\ \A p \in Callers : /\ Completed(p)
                                /\ obs[p].registered
                                /\ obs[p].had = None
                                /\ obs[p].best = {j}
         /\ \A p, q \in Callers : p # q => arg[p] # arg[q])
        => \E p \in Callers :
              /\ Returned(p, j)
              /\ \A q \in Callers \ {p} : Returned(q, None)

\* C4: a call of next_simulation by a simulator that has a running simulation
\* returns that simulation, every time, whatever the queue holds.
C4_SameSimulationAgain ==
    \A p \in Callers : \A j \in Jobs :
        (Completed(p) /\ <<arg[p], j>> \in running) => Returned(p, j)

C4_Witness ==
    \E p, q \in Callers : \E j \in Jobs :
        /\ p # q
        /\ arg[p] = arg[q]
        /\ <<arg[p], j>> \in running
        /\ Returned(p, j) /\ Returned(q, j)
        /\ \E i \in 1..Len(queue) : queue[i].priority = MaxPriority

\* C5: a call by a registered simulator with no running simulation that finds
\* the queue non-empty returns a job of the highest queued priority.
C5_HighestPriorityReturned ==
    \A p \in Callers :
        (Completed(p) /\ obs[p].registered /\ obs[p].had = None
            /\ obs[p].best # {})
        => \E j \in obs[p].best : Returned(p, j)

\* C6: a call that finds the queue empty, by a simulator with no running
\* simulation, returns None as a normal result and creates no running row.
C6_EmptyQueueReturnsNone ==
    \A p \in Callers :
        (Completed(p) /\ obs[p].had = None /\ obs[p].best = {})
        => /\ Returned(p, None)
           /\ \A j \in Jobs : <<arg[p], j>> \notin running

\* C7: a call with a simulator id that was never registered, finding the queue
\* non-empty, returns None and leaves the selected job in the queue.
C7_UnregisteredReturnsNone ==
    \A p \in Callers :
        (Completed(p) /\ arg[p] \notin simulator /\ obs[p].best # {})
        => /\ Returned(p, None)
           /\ \A j \in obs[p].best : InQueue(j)

\* C8: after a successful notify_finished(w, j) for a job j that was running
\* on w, complete holds j with w and running no longer holds j.
C8_FinishedIsComplete ==
    (last.op = "notify_finished" /\ last.raised = "none" /\ last.ran)
    => /\ <<last.simulator_id, last.simulation_id>> \in complete
       /\ ~InRunning(last.simulation_id)

C8_Witness ==
    /\ last.op = "notify_finished" /\ last.raised = "none" /\ last.ran
    /\ <<last.simulator_id, last.simulation_id>> \in complete

\* C10: a job with a complete row keeps it, is not put in queue or running by
\* any later step, and no next_simulation call that reads the store after
\* the row exists returns it.
C10_CompleteIsTerminal ==
    [][\A j \in Jobs :
        /\ InComplete(j) => /\ InComplete(j)'
                            /\ InQueue(j)' => InQueue(j)
                            /\ InRunning(j)' => InRunning(j)
        /\ \A p \in Callers : Returned(p, j)' => ~obs'[p].wasComplete]_vars

\* A next_simulation call by w found nothing running for w after
\* notify_finished(w, j) had moved w's running job j to complete.
C10_Witness ==
    \E p \in Callers :
        /\ last.op = "notify_finished" /\ last.raised = "none" /\ last.ran
        /\ Completed(p)
        /\ arg[p] = last.simulator_id
        /\ obs[p].had = None
        /\ InComplete(last.simulation_id)

\* The operation that the step carried out, read from what `last` becomes.
Called(op) == last'.op = op
MissingEntity(op) ==
    \/ last'.simulation_id \notin simulation
    \/ op # "insert_in_queue" /\ last'.simulator_id \notin simulator
Target(op) ==
    CASE op = "insert_simulator" -> simulator
      [] op = "insert_simulation" -> simulation
      [] op = "insert_in_queue" -> QueuedIds(queue)
      [] op = "insert_in_running" -> RunningIds(running)
      [] op = "insert_in_complete" -> CompleteIds(complete)
Inserted(op) ==
    IF op = "insert_simulator" THEN last'.simulator_id ELSE last'.simulation_id
Placements == {"insert_in_queue", "insert_in_running", "insert_in_complete"}
Inserts == {"insert_simulator", "insert_simulation"} \cup Placements

\* C11: an insert of an id that the target collection already holds raises
\* EntryExistsError and leaves that collection as it was, for each of
\* insert_simulator, insert_simulation, insert_in_queue, insert_in_running and
\* insert_in_complete.
C11_DuplicateInsertFails ==
    [][\A op \in Inserts :
        (Called(op) /\ Inserted(op) \in Target(op))
        => /\ last'.raised = "EntryExistsError"
           /\ (op = "insert_simulator" => simulator' = simulator)
           /\ (op = "insert_simulation" => simulation' = simulation)
           /\ (op = "insert_in_queue" => queue' = queue)
           /\ (op = "insert_in_running" => running' = running)
           /\ (op = "insert_in_complete" => complete' = complete)]_vars

\* A second insert_in_complete of a job, naming another simulator, was refused.
C11_Witness ==
    /\ last.op = "insert_in_complete"
    /\ last.raised = "EntryExistsError"
    /\ \E w \in simulator : /\ w # last.simulator_id
                             /\ complete = {<<w, last.simulation_id>>}

\* C12 as stated: insert_in_queue, insert_in_running and insert_in_complete
\* that name a simulation or a simulator the database does not hold raise
\* EntryNotFoundError and insert nothing.
C12_MissingEntityNotFound ==
    [][\A op \in Placements :
        (Called(op) /\ MissingEntity(op))
        => (last'.raised = "EntryNotFoundError" /\ tables' = tables)]_vars

\* C12 amended: the same, for a simulation that has no row yet in the table
\* the insert goes to (when it has one the insert raises EntryExistsError).
C12_MissingEntityNotFoundUnlessPresent ==
    [][\A op \in Placements :
        (Called(op) /\ MissingEntity(op) /\ Inserted(op) \notin Target(op))
        => (last'.raised = "EntryNotFoundError" /\ tables' = tables)]_vars

\* insert_in_running of an existing simulation for an unregistered simulator
\* was refused, next to another simulation that is running.
C12_Witness ==
    /\ last.op = "insert_in_running"
    /\ last.raised = "EntryNotFoundError"
    /\ last.simulation_id \in simulation
    /\ last.simulator_id \notin simulator
    /\ running # {}

\* C13: delete_simulation(j) raises nothing, leaves j in none of simulation,
\* queue, running and complete, leaves every other simulation and its rows
\* (and the order of the queue) as they were, and changes nothing when j is
\* not in the database.
C13_DeleteSimulation ==
    [][Called("delete_simulation") =>
        LET j == last'.simulation_id
            Others(q) == SelectSeq(q, LAMBDA e : e.simulation_id # j)
        IN
        /\ last'.raised = "none"
        /\ j \notin simulation'
        /\ j \notin QueuedIds(queue') \cup RunningIds(running')
                        \cup CompleteIds(complete')
        /\ simulation' \ {j} = simulation \ {j}
        /\ Others(queue') = Others(queue)
        /\ \A e \in running \cup running' :
              e[2] # j => (e \in running <=> e \in running')
        /\ \A e \in complete \cup complete' :
              e[2] # j => (e \in complete <=> e \in complete')
        /\ simulator' = simulator
        /\ (j \notin simulation => tables' = tables)]_vars

\* A simulation was deleted, with effect, while the other simulation was in
\* queue, running and complete, where it still is.
C13_Witness ==
    /\ last.op = "delete_simulation"
    /\ last.ran
    /\ \E k \in Jobs \ {last.simulation_id} :
          InQueue(k) /\ InRunning(k) /\ InComplete(k)

\* C14: the id a register call returns was not a registered simulator before
\* the call and is one after it, and registered simulators stay registered,
\* so that no later register call returns the same id.  (A step that leaves
\* `last` at a register record is a step of another operation.)
C14_RegisterReturnsFreshId ==
    [][/\ (Called("register") /\ last' # last)
            => /\ last'.simulator_id \notin simulator
               /\ last'.simulator_id \in simulator'
       /\ simulator \subseteq simulator']_vars

\* register has returned while every other id was registered already: the
\* calls before it returned the other ids.
C14_Witness ==
    /\ last.op = "register"
    /\ simulator = SimulatorIds
    /\ queue # <<>>

\* C16: every row of queue, running and complete names a simulation of the
\* simulation table, and every row of running and complete names a simulator
\* of the simulator table.
C16_ReferentialIntegrity ==
    /\ QueuedIds(queue) \cup RunningIds(running) \cup CompleteIds(complete)
            \subseteq simulation
    /\ \A e \in running \cup complete : e[1] \in simulator

\* A simulation with rows was deleted and rows of another remain in every table.
C16_Witness ==
    /\ last.op = "delete_simulation"
    /\ last.ran
    /\ queue # <<>> /\ running # {} /\ complete # {}

\* C17: in every committed state every simulation of the simulation table is
\* in at least one of queue, running and complete.
C17_NoJobLost ==
    \A j \in simulation : InQueue(j) \/ InRunning(j) \/ InComplete(j)

\* notify_finished failed for a running simulation, a next_simulation call
\* failed, and both simulations are in the database.
C17_Witness ==
    /\ last.op = "notify_finished"
    /\ last.raised = "EntryNotFoundError"
    /\ last.ran
    /\ simulation = Jobs
    /\ \E p \in Callers : Completed(p) /\ result[p].kind = "OperationError"

\* C18: a notify_finished call that fails leaves queue, running and complete
\* (and the other tables) as they were before the call.
C18_FailedFinishChangesNothing ==
    [][(Called("notify_finished") /\ last'.raised # "none")
        => tables' = tables]_vars

\* notify_finished named an unregistered simulator for a simulation that had
\* a running row: the row is still there.
C18_Witness ==
    /\ last.op = "notify_finished"
    /\ last.raised = "EntryNotFoundError"
    /\ last.ran
    /\ running # {}
    /\ simulator # SimulatorIds

\* C19: no step of a next_simulation call changes a table, except the step
\* that returns a simulation to the caller.
C19_NoJobNoChange ==
    [][\A p \in Callers :
        (pc'[p] # pc[p] /\ ~(\E j \in Jobs : Returned(p, j)'))
        => tables' = tables]_vars

\* A call by a registered simulator with nothing running found a job queued
\* and ended without returning one; the job is still queued.
C19_Witness ==
    \E p \in Callers :
        /\ Completed(p)
        /\ result[p].kind = "OperationError"
        /\ obs[p].registered
        /\ obs[p].had = None
        /\ obs[p].best # {}
        /\ obs[p].best \subseteq QueuedIds(queue)

\* C20: a complete row <<w, j>> written by notify_finished(w, j) is of a
\* simulation that was running on w when the call was made.
C20_CompleteOnlyFromRunning ==
    \A w \in SimulatorIds, j \in Jobs :
        (/\ last.op = "notify_finished"
         /\ last.raised = "none"
         /\ last.simulator_id = w /\ last.simulation_id = j
         /\ <<w, j>> \in complete)
        => last.ran

\* C21: while running holds <<w, j>>, no step binds j to another simulator,
\* and a next_simulation call that returns j is a call by w.
C21_NeverReassigned ==
    [][\A w \in SimulatorIds, j \in Jobs :
        <<w, j>> \in running
        => /\ InRunning(j)' => <<w, j>> \in running'
           /\ \A p \in Callers :
                 (pc[p] # "idle" /\ Returned(p, j)') => arg[p] = w]_vars

\* Both callers, one as the simulator running j and one as another registered
\* simulator, have ended their calls and j is still running on the first.
C21_Witness ==
    \E p, q \in Callers : \E j \in Jobs :
        /\ <<arg[p], j>> \in running
        /\ Returned(p, j)
        /\ Completed(q)
        /\ arg[q] # arg[p]
        /\ arg[q] \in simulator
        /\ obs[q].had = None
        /\ obs[q].best # {}

\* The queued id of S that was enqueued first.
Earliest(S) ==
    queue[CHOOSE i \in 1..Len(queue) :
            /\ queue[i].simulation_id \in S
            /\ \A k \in 1..(i - 1) : queue[k].simulation_id \notin S].simulation_id

\* C22: a call by a registered simulator with nothing running that finds
\* several queue rows of the highest priority returns the one enqueued first.
C22_EarliestOfTiedReturned ==
    \A p \in Callers :
        (/\ Completed(p)
         /\ obs[p].registered
         /\ obs[p].had = None
         /\ Cardinality(obs[p].best) > 1
         /\ obs[p].best \subseteq QueuedIds(queue))
        => Returned(p, Earliest(obs[p].best))

\* C23: queued_simulations yields every queue row exactly once, rows of
\* higher priority first.
C23_QueuedByDescendingPriority ==
    last.op = "queued_simulations"
    => /\ Len(last.rows) = Len(queue)
       /\ \A i \in 1..Len(queue) :
             \E k \in 1..Len(last.rows) :
                /\ last.rows[k] = queue[i]
                /\ \A m \in 1..Len(last.rows) : last.rows[m] = queue[i] => m = k
       /\ \A a, b \in 1..Len(last.rows) :
             a < b => last.rows[a].priority >= last.rows[b].priority

C25_RegisterAttemptsCapped ==
    attempts < MaxAttempts

\* C26: no step of a next_simulation call made for a simulator that has a
\* running simulation changes a table, the step that returns included.
C26_RequeryChangesNothing ==
    [][\A p \in Callers :
        (pc'[p] # pc[p] /\ \E j \in Jobs : <<arg'[p], j>> \in running)
        => tables' = tables]_vars

\* A simulator got its running simulation back while every other simulation
\* is queued.
C26_Witness ==
    \E p \in Callers : \E j \in Jobs :
        /\ <<arg[p], j>> \in running
        /\ Returned(p, j)
        /\ obs[p].had = j
        /\ QueuedIds(queue) = Jobs \ {j}
        /\ complete = {}

\* A batch is refused when one of its ids is in the database already or
\* occurs twice in it.
BatchFails(simulations) ==
    \E i \in DOMAIN simulations :
        \/ simulations[i] \in simulation
        \/ \E k \in 1..(i - 1) : simulations[k] = simulations[i]

\* The step stores the whole batch: every simulation in the simulation table
\* and at the end of the queue with the given priority, in the list's order.
StoredWhole(simulations, priority) ==
    /\ simulation' = simulation \cup {simulations[i] : i \in DOMAIN simulations}
    /\ queue' = queue \o [i \in DOMAIN simulations |->
                            [simulation_id |-> simulations[i],
                             priority |-> priority]]
    /\ UNCHANGED <<simulator, running, complete>>

\* C27: an add_simulations step (the one step that leaves the calls in
\* progress, the simulator table and the attempt count alone and records
\* itself or nothing in last) either stores a whole batch none of whose
\* inserts fails, or is refused and leaves every table as it was: no part
\* of a refused batch is stored.
C27_BatchAllOrNothing ==
    [][(/\ pc' = pc
        /\ attempts' = attempts
        /\ simulator' = simulator
        /\ last'.op \in {"other", "add_simulations"})
       => \/ /\ last'.raised = "EntryExistsError"
             /\ tables' = tables
             /\ \E b \in Batches : BatchFails(b)
          \/ /\ last'.raised = "none"
             /\ \E b \in Batches, pr \in Priorities :
                   ~BatchFails(b) /\ StoredWhole(b, pr)]_vars

\* A batch was refused and one simulation is in the database, queued.
C27_Witness ==
    /\ last.op = "add_simulations"
    /\ last.raised = "EntryExistsError"
    /\ Cardinality(simulation) = 1
    /\ Len(queue) = 1

\* C28: with a registered simulator at work, every queued simulation is
\* eventually taken from the queue and completed.
C28_Progress ==
    \A j \in Jobs :
        (InQueue(j) /\ simulator # {}) ~> (InComplete(j) /\ ~InQueue(j))
====
